---- MODULE Spec2Model ----
(***************************************************************************)
(* The inline-completion provider of the Ollama extension                  *)
(* (completionProvider.ts) with the part of OllamaService it calls         *)
(* (ollamaService.ts).  Text is a sequence of one-character strings.       *)
(***************************************************************************)
EXTENDS Integers, Sequences, FiniteSets, TLC

-----------------------------------------------------------------------------
(* Bounds of the model.                                                    *)

\* Number of requests the text host raises in one behaviour.
MaxRequests == 3

\* Number of fragments a raw reply given to the sanitizer is made of.
MaxPieces == 3

\* Number of lines the body of a streamed reply has.
MaxRecords == 3

\* Number of chunks the body of a streamed reply is read in.
MaxChunks == 2

\* The number of times the user selects another model.
MaxSwitches == 2

\* Length of the line the eligibility filter is given.
MaxLineLength == 4

\* Number of times the sanitizer is applied in a row to a raw reply.
MaxPasses == 2

\* completionProvider.ts:19 sets 50; the model keeps the comparison and the
\* slice of setCachedCompletion and scales the size down.
maxCacheSize == 2

-----------------------------------------------------------------------------
(* Program constants.                                                      *)

cacheExpiryMs == 300000

MaxCompletionLength == 500

ContextLinesBefore == 20

-----------------------------------------------------------------------------
(* Characters and strings.                                                 *)

NL == "\n"

\* The grave accent (U+0060) of a code fence; the lexer of TLA+ reserves the
\* character itself, so the model names it.
BQ == "grave"

Str0 == << >>

Digits == <<"0", "1", "2", "3", "4", "5", "6", "7", "8", "9">>

LowerLetters == <<"a", "b", "c", "d", "e", "f", "g", "h", "i", "j", "k", "l", "m",
                  "n", "o", "p", "q", "r", "s", "t", "u", "v", "w", "x", "y", "z">>

UpperLetters == <<"A", "B", "C", "D", "E", "F", "G", "H", "I", "J", "K", "L", "M",
                  "N", "O", "P", "Q", "R", "S", "T", "U", "V", "W", "X", "Y", "Z">>

Range(s) == {s[i] : i \in DOMAIN s}

IndexOf(c, s) == CHOOSE i \in DOMAIN s : s[i] = c

\* String.prototype.charCodeAt for the characters the model's texts use.
CharCode(c) ==
    IF c \in Range(LowerLetters) THEN 96 + IndexOf(c, LowerLetters)
    ELSE IF c \in Range(UpperLetters) THEN 64 + IndexOf(c, UpperLetters)
    ELSE IF c \in Range(Digits) THEN 47 + IndexOf(c, Digits)
    ELSE CASE c = "\t" -> 9
           [] c = NL -> 10
           [] c = " " -> 32
           [] c = "#" -> 35
           [] c = "(" -> 40
           [] c = ")" -> 41
           [] c = "*" -> 42
           [] c = "+" -> 43
           [] c = "," -> 44
           [] c = "-" -> 45
           [] c = "." -> 46
           [] c = "/" -> 47
           [] c = ":" -> 58
           [] c = ";" -> 59
           [] c = "=" -> 61
           [] c = "_" -> 95
           [] c = BQ -> 96

\* The regular expression class \w.
IsWordChar(c) ==
    \/ c \in Range(LowerLetters)
    \/ c \in Range(UpperLetters)
    \/ c \in Range(Digits)
    \/ c = "_"

\* The regular expression class \s, and the characters trim() removes.
IsSpace(c) == c \in {" ", "\t", NL}

\* Case folding of the regular expression flag i.
ToLower(c) ==
    IF c \in Range(UpperLetters) THEN LowerLetters[IndexOf(c, UpperLetters)] ELSE c

RECURSIVE TrimStart(_)
TrimStart(s) ==
    IF s # Str0 /\ IsSpace(Head(s)) THEN TrimStart(Tail(s)) ELSE s

RECURSIVE TrimEnd(_)
TrimEnd(s) ==
    IF s # Str0 /\ IsSpace(s[Len(s)]) THEN TrimEnd(SubSeq(s, 1, Len(s) - 1)) ELSE s

\* String.prototype.trim
Trim(s) == TrimEnd(TrimStart(s))

\* String.prototype.startsWith
StartsWith(s, p) == Len(p) <= Len(s) /\ SubSeq(s, 1, Len(p)) = p

EndsWith(s, p) == Len(p) <= Len(s) /\ SubSeq(s, Len(s) - Len(p) + 1, Len(s)) = p

\* startsWith under the flag i; the patterns are lower case.
StartsWithNoCase(s, p) ==
    /\ Len(p) <= Len(s)
    /\ \A i \in 1..Len(p) : ToLower(s[i]) = p[i]

\* String.prototype.substring(0, n)
Substring0(s, n) == SubSeq(s, 1, IF n < Len(s) THEN n ELSE Len(s))

\* String.prototype.split on the line feed: the pieces between the line feeds, at least one.
RECURSIVE SplitLines(_)
SplitLines(s) ==
    IF \A i \in DOMAIN s : s[i] # NL THEN <<s>>
    ELSE LET k == CHOOSE i \in DOMAIN s : s[i] = NL /\ \A j \in 1..(i - 1) : s[j] # NL
         IN <<SubSeq(s, 1, k - 1)>> \o SplitLines(SubSeq(s, k + 1, Len(s)))

\* Array.prototype.join on the line feed
RECURSIVE JoinLines(_)
JoinLines(ls) ==
    IF ls = << >> THEN Str0
    ELSE IF Len(ls) = 1 THEN ls[1]
    ELSE ls[1] \o <<NL>> \o JoinLines(Tail(ls))

-----------------------------------------------------------------------------
(* Eligibility filter: shouldProvideCompletion and isInComment.            *)

\* A request's document and position: the language identifier, the lines of
\* the document, and the zero-based line and character of the cursor.
LineText(doc) == doc.lines[doc.line + 1]

LinePrefix(doc) == Substring0(LineText(doc), doc.character)

commentPatterns(languageId) ==
    IF languageId \in {"javascript", "typescript", "java", "csharp", "go", "rust", "cpp", "c"}
    THEN {<<"/", "/">>, <<"/", "*">>}
    ELSE IF languageId = "python" THEN {<<"#">>}
    ELSE {}

isInComment(linePrefix, languageId) ==
    \E pattern \in commentPatterns(languageId) : StartsWith(Trim(linePrefix), pattern)

\* line.text[i] of the code, the empty string where the code takes it.
charBefore(doc) ==
    IF doc.character > 0 THEN LineText(doc)[doc.character] ELSE ""

charAfter(doc) ==
    IF doc.character < Len(LineText(doc)) THEN LineText(doc)[doc.character + 1] ELSE ""

\* shouldProvideCompletion without the test of the character before the cursor.
ShouldProvideIgnoringCharBefore(doc) ==
    IF isInComment(LinePrefix(doc), doc.languageId) THEN FALSE
    ELSE IF Len(Trim(LinePrefix(doc))) < 3 THEN FALSE
    ELSE IF charAfter(doc) # "" /\ IsWordChar(charAfter(doc)) THEN FALSE
    ELSE TRUE

shouldProvideCompletion(doc) ==
    IF isInComment(LinePrefix(doc), doc.languageId) THEN FALSE
    ELSE IF Len(Trim(LinePrefix(doc))) < 3 THEN FALSE
    ELSE IF charAfter(doc) # "" /\ IsWordChar(charAfter(doc)) /\ IsWordChar(charBefore(doc))
         THEN FALSE
    ELSE TRUE

-----------------------------------------------------------------------------
(* Context window and cache key.                                           *)

Max(a, b) == IF a > b THEN a ELSE b

\* getContextRange and document.getText: from column 0 of the line
\* ContextLinesBefore lines above the cursor (or of line 0) up to the cursor.
ContextText(doc) ==
    LET startLine == Max(0, doc.line - ContextLinesBefore)
    IN JoinLines([i \in 1..(doc.line - startLine + 1) |->
                    IF startLine + i = doc.line + 1 THEN LinePrefix(doc)
                    ELSE doc.lines[startLine + i]])

\* A 32-bit integer as two 16-bit limbs <<high, low>>, so that the
\* arithmetic of simpleHash wraps as the code's does.
Limb == 65536

ToLimbs(h) == <<(h \div Limb) % Limb, h % Limb>>

ToInt32(u) == IF u[1] >= Limb \div 2 THEN (u[1] - Limb) * Limb + u[2] ELSE u[1] * Limb + u[2]

\* u << 5
Shl5(u) == <<(u[1] * 32 + (u[2] * 32) \div Limb) % Limb, (u[2] * 32) % Limb>>

\* u - v modulo 2^32
SubLimbs(u, v) ==
    LET borrow == IF u[2] < v[2] THEN 1 ELSE 0
    IN <<(u[1] - v[1] - borrow) % Limb, (u[2] - v[2]) % Limb>>

\* u + c modulo 2^32, for a character code c
AddCode(u, c) == <<(u[1] + (u[2] + c) \div Limb) % Limb, (u[2] + c) % Limb>>

\* Number.prototype.toString(36)
Base36 == Digits \o LowerLetters

RECURSIVE NatToString36(_)
NatToString36(n) ==
    IF n < 36 THEN <<Base36[n + 1]>>
    ELSE NatToString36(n \div 36) \o <<Base36[(n % 36) + 1]>>

ToString36(n) == IF n < 0 THEN <<"-">> \o NatToString36(0 - n) ELSE NatToString36(n)

RECURSIVE HashFrom(_, _)
HashFrom(hash, str) ==
    IF str = Str0 THEN hash
    ELSE HashFrom(ToInt32(AddCode(SubLimbs(Shl5(ToLimbs(hash)), ToLimbs(hash)),
                                  CharCode(Head(str)))),
                  Tail(str))

simpleHash(str) == ToString36(HashFrom(0, str))

\* The template string of languageId, a colon and contextHash, as its three parts.
createCacheKey(context, languageId) == <<languageId, ":", simpleHash(context)>>

-----------------------------------------------------------------------------
(* The completion cache: an array of {key, completion, timestamp}.         *)

\* The expiry filter with the comparison turned round.
PruneExpiredInverted(c, t) == SelectSeq(c, LAMBDA entry : t - entry.timestamp >= cacheExpiryMs)

\* The expiry filter keeping an entry at the very millisecond of its expiry.
PruneExpiredInclusive(c, t) == SelectSeq(c, LAMBDA entry : t - entry.timestamp <= cacheExpiryMs)

PruneExpired(c, t) == SelectSeq(c, LAMBDA entry : t - entry.timestamp < cacheExpiryMs)

\* Array.prototype.find over the pruned cache; null is NoCompletion.
NoCompletion == "null"

Find(c, key) ==
    IF \E i \in DOMAIN c : c[i].key = key
    THEN c[CHOOSE i \in DOMAIN c : c[i].key = key /\ \A j \in 1..(i - 1) : c[j].key # key].completion
    ELSE NoCompletion

getCachedCompletion(c, key, t) == Find(PruneExpired(c, t), key)

\* Array.prototype.sort with (a, b) => b.timestamp - a.timestamp: descending
\* by timestamp, stable (ECMAScript 2019), so equal timestamps keep their order.
RECURSIVE SortByTimestampDesc(_)
SortByTimestampDesc(c) ==
    IF c = << >> THEN << >>
    ELSE LET m == CHOOSE t \in {c[i].timestamp : i \in DOMAIN c} :
                      \A i \in DOMAIN c : c[i].timestamp <= t
         IN SelectSeq(c, LAMBDA entry : entry.timestamp = m)
              \o SortByTimestampDesc(SelectSeq(c, LAMBDA entry : entry.timestamp # m))

\* setCachedCompletion leaving the cache alone when it holds the key already.
SetKeepingFirst(c, key, completion, t) ==
    IF \E i \in DOMAIN c : c[i].key = key THEN c
    ELSE LET pushed == Append(c, [key |-> key, completion |-> completion, timestamp |-> t])
         IN IF Len(pushed) > maxCacheSize
            THEN SubSeq(SortByTimestampDesc(pushed), 1, maxCacheSize)
            ELSE pushed

\* setCachedCompletion without the removal of the entry of the same key.
SetWithoutReplace(c, key, completion, t) ==
    LET pushed == Append(c, [key |-> key, completion |-> completion, timestamp |-> t])
    IN IF Len(pushed) > maxCacheSize
       THEN SubSeq(SortByTimestampDesc(pushed), 1, maxCacheSize)
       ELSE pushed

\* setCachedCompletion without the sort and the slice.
SetWithoutEviction(c, key, completion, t) ==
    LET removed == SelectSeq(c, LAMBDA entry : entry.key # key)
    IN Append(removed, [key |-> key, completion |-> completion, timestamp |-> t])

setCachedCompletion(c, key, completion, t) ==
    LET removed == SelectSeq(c, LAMBDA entry : entry.key # key)
        pushed == Append(removed, [key |-> key, completion |-> completion, timestamp |-> t])
    IN IF Len(pushed) > maxCacheSize
       THEN SubSeq(SortByTimestampDesc(pushed), 1, maxCacheSize)
       ELSE pushed

clearCache == << >>

-----------------------------------------------------------------------------
(* Response sanitizer: cleanCompletion and isExplanatoryLine.              *)

Fence == <<BQ, BQ, BQ>>

\* Number of leading characters of s in the class \w.
WordRun(s) ==
    IF \A i \in DOMAIN s : IsWordChar(s[i]) THEN Len(s)
    ELSE (CHOOSE i \in DOMAIN s : ~IsWordChar(s[i]) /\ \A j \in 1..(i - 1) : IsWordChar(s[j])) - 1

\* replace(/^```[\w]*\n/, ''): a fence at the start, a greedy run of \w, a line feed.
StripOpener(s) ==
    IF StartsWith(s, Fence)
    THEN LET k == 3 + WordRun(SubSeq(s, 4, Len(s)))
         IN IF k < Len(s) /\ s[k + 1] = NL THEN SubSeq(s, k + 2, Len(s)) ELSE s
    ELSE s

\* replace(/\n```$/, ''): a line feed and a fence at the very end.
StripCloser(s) ==
    IF EndsWith(s, <<NL>> \o Fence) THEN SubSeq(s, 1, Len(s) - 4) ELSE s

\* /^(this|the|here|now|then|explanation|note|important)/i
DiscourseMarkers ==
    { <<"t", "h", "i", "s">>, <<"t", "h", "e">>, <<"h", "e", "r", "e">>, <<"n", "o", "w">>,
      <<"t", "h", "e", "n">>, <<"e", "x", "p", "l", "a", "n", "a", "t", "i", "o", "n">>,
      <<"n", "o", "t", "e">>, <<"i", "m", "p", "o", "r", "t", "a", "n", "t">> }

\* /^(\/\*|\/\/|\#)\s*(explanation|note|this)/i
CommentOpeners == { <<"/", "*">>, <<"/", "/">>, <<"#">> }

CommentedMarkers ==
    { <<"e", "x", "p", "l", "a", "n", "a", "t", "i", "o", "n">>, <<"n", "o", "t", "e">>,
      <<"t", "h", "i", "s">> }

isExplanatoryLine(line) ==
    LET t == Trim(line)
    IN \/ \E w \in DiscourseMarkers : StartsWithNoCase(t, w)
       \/ \E o \in CommentOpeners :
            /\ StartsWith(t, o)
            /\ \E w \in CommentedMarkers :
                 StartsWithNoCase(TrimStart(SubSeq(t, Len(o) + 1, Len(t))), w)

\* The lines before the first explanatory one.
RECURSIVE CodeLines(_)
CodeLines(ls) ==
    IF ls = << >> \/ isExplanatoryLine(Head(ls)) THEN << >>
    ELSE <<Head(ls)>> \o CodeLines(Tail(ls))

\* cleanCompletion without the cap of the length.
CleanWithoutCap(completion, languageId) ==
    JoinLines(CodeLines(SplitLines(StripCloser(StripOpener(Trim(completion))))))

\* cleanCompletion leaving out the explanatory lines and keeping the lines
\* after them.
CleanSkippingExplanatory(completion, languageId) ==
    LET trimmed == Trim(completion)
        unfenced == StripCloser(StripOpener(trimmed))
        joined == JoinLines(SelectSeq(SplitLines(unfenced), LAMBDA l : ~isExplanatoryLine(l)))
    IN IF Len(joined) > MaxCompletionLength
       THEN Substring0(joined, MaxCompletionLength)
       ELSE joined

cleanCompletion(completion, languageId) ==
    LET trimmed == Trim(completion)
        unfenced == StripCloser(StripOpener(trimmed))
        joined == JoinLines(CodeLines(SplitLines(unfenced)))
    IN IF Len(joined) > MaxCompletionLength
       THEN Substring0(joined, MaxCompletionLength)
       ELSE joined

-----------------------------------------------------------------------------
(* The inputs of the model.                                                *)

\* Documents with the cursor position a request is raised at.
Docs ==
    << [languageId |-> "python", lines |-> << <<"x", " ", "=", " ">> >>,
        line |-> 0, character |-> 4],
       [languageId |-> "python", lines |-> << <<"i", "f", " ", "y", ":">>, <<"z", " ", "=", " ">> >>,
        line |-> 1, character |-> 4],
       [languageId |-> "javascript", lines |-> << <<"x", " ", "=", " ">> >>,
        line |-> 0, character |-> 4],
       [languageId |-> "python", lines |-> << <<"a", "b">> >>,
        line |-> 0, character |-> 2] >>

\* What the generation backend does with one call: the kind of outcome and,
\* for a well-formed reply, the response field of its body.
Code1 == <<" ", "x", " ", "+", " ", "1">>

Code2 == <<"y", "(", ")">>

Prose == <<"T", "h", "i", "s", " ", "a", "d", "d", "s">>

Fenced == Fence \o <<"p", "y", NL>> \o Code2 \o <<NL>> \o Prose \o <<NL>> \o Fence

Outcomes ==
    {[kind |-> k, response |-> Str0] : k \in {"network", "timeout", "status", "malformed"}}
      \cup {[kind |-> "ok", response |-> r] : r \in {Code1, Prose, Fenced}}

\* The values Date.now() takes: an entry stored at 0 is one millisecond short
\* of expiry at cacheExpiryMs - 1 and expired at cacheExpiryMs.
Times == {0, cacheExpiryMs - 1, cacheExpiryMs}

\* The defaults of the settings: completionDelay in milliseconds, temperature
\* in tenths, maxTokens.
DefaultCompletionDelay == 500

DefaultTemperature == 1

DefaultMaxTokens == 100

\* The operands the service falls back to: 0.1, in tenths, and 100.
FallbackTemperature == 1

FallbackNumPredict == 100

\* config.get('model', 'codellama:7b')
DefaultModel == "codellama:7b"

\* The models the user selects one after the other, the default first.
ModelNames == <<DefaultModel, "llama3:8b", "mistral:7b", "phi3:mini", "qwen2:7b">>

\* What the backend completes with under a model: a text that names it.
ModelReply(m) == <<"v", Digits[IndexOf(m, ModelNames)]>>

\* The settings with completion switched on and every other one at its default.
DefaultConfig ==
    [enabled |-> TRUE, enableAutoCompletion |-> TRUE,
     completionDelay |-> DefaultCompletionDelay, temperature |-> DefaultTemperature,
     maxTokens |-> DefaultMaxTokens]

\* The settings with the delay, the temperature and the token budget left
\* at their defaults.
Configs ==
    [enabled : BOOLEAN, enableAutoCompletion : BOOLEAN,
     completionDelay : {DefaultCompletionDelay}, temperature : {DefaultTemperature},
     maxTokens : {DefaultMaxTokens}]

-----------------------------------------------------------------------------
(* State.                                                                  *)

VARIABLES
    config,         \* the settings of section ollama the provider reads
    completionDelay, \* this.completionDelay
    now,            \* Date.now()
    cache,          \* this.cache
    isGenerating,   \* this.isGenerating
    debounceTimer,  \* this.debounceTimer: the handle of the last setTimeout, 0 for undefined
    timers,         \* the callbacks of the timers the runtime holds pending
    calls,          \* the continuations of generateCompletions awaiting the backend
    count,          \* the number of calls of provideInlineCompletionItems so far
    pending,        \* the requests whose promise is not resolved
    superseded,     \* the requests a later request scheduled its timer before the fire of
    order,          \* the keys of the cache entries, from the first created to the last
    last,           \* the step just taken and what it returned to the host
    input,          \* the argument of a function applied on its own, what is left of it to read
    output,         \* what that function has returned or yielded so far
    model,          \* this.model of the OllamaService the provider calls
    handlers        \* the calls of handleConfigurationChange awaiting the connection test

vars == <<config, completionDelay, now, cache, isGenerating, debounceTimer, timers, calls,
          count, pending, superseded, order, last, input, output, model, handlers>>

\* The settings read for a backend call that has not been made.
NoOptions == [temperature |-> -1, maxTokens |-> -1]

\* The request body of a backend call that has not been made.
NoRequest == [model |-> "none", temperature |-> -1, num_predict |-> -1, stop |-> << >>]

\* What a timer's callback and the continuation of generateCompletions hold
\* of their request: its number (the timer's handle), its document (an index
\* of Docs), its cancellation token, the delay the timer was set with and,
\* once the backend is called, the temperature and the token budget read
\* for the call and the body of the request the service posts.
Closure(id, d, delay) ==
    [id |-> id, doc |-> d, cancelled |-> FALSE, delay |-> delay, options |-> NoOptions,
     request |-> NoRequest]

Ids(closures) == {c.id : c \in closures}

Keys(c) == {c[i].key : i \in DOMAIN c}

\* doc and kind are the input of the step: the document of a request (an
\* index of Docs, else 0) and the kind of outcome of a backend call.
Step(op, id, doc, kind, exit, items) ==
    [op |-> op, id |-> id, doc |-> doc, kind |-> kind, exit |-> exit, items |-> items]

\* updateConfig, lines 36-39: the value of this.completionDelay.
updateConfig(cfg) == cfg.completionDelay

\* The provider after its constructor, under the settings cfg.
Constructed(cfg) ==
    /\ config = cfg
    /\ completionDelay = updateConfig(cfg)
    /\ now = 0
    /\ cache = << >>
    /\ isGenerating = FALSE
    /\ debounceTimer = 0
    /\ timers = {}
    /\ calls = {}
    /\ count = 0
    /\ pending = {}
    /\ superseded = {}
    /\ order = << >>
    /\ last = Step("init", 0, 0, "none", "none", << >>)
    /\ model = DefaultModel
    /\ handlers = 0

\* The provider is constructed by activate() only when ollama.enabled is set.
Init ==
    /\ \E cfg \in {c \in Configs : c.enabled} : Constructed(cfg)
    /\ input = << >>
    /\ output = << >>

-----------------------------------------------------------------------------
(* provideInlineCompletionItems, up to the promise it returns.             *)

\* shouldProvideCompletion for each document of Docs, evaluated once.
Eligible == [d \in DOMAIN Docs |-> shouldProvideCompletion(Docs[d])]

\* The gate without the test of this.isGenerating.
GateClosedIgnoringFlag(cfg, generating) ==
    ~cfg.enabled \/ ~cfg.enableAutoCompletion

\* if (!isEnabled || !autoCompletionEnabled || this.isGenerating) return [];
GateClosed(cfg, generating) ==
    ~cfg.enabled \/ ~cfg.enableAutoCompletion \/ generating

GateExit(cfg) ==
    IF ~cfg.enabled \/ ~cfg.enableAutoCompletion THEN "disabled" ELSE "busy"

\* The debounce without the call of clearTimeout.
ClearTimeoutNoop(pendingTimers, handle) == pendingTimers

\* if (this.debounceTimer) clearTimeout(this.debounceTimer);
ClearTimeout(pendingTimers, handle) ==
    IF handle # 0 THEN {c \in pendingTimers : c.id # handle} ELSE pendingTimers

\* provideInlineCompletionItems clearing the pending timer before the gates.
ProvideClearingTimerFirst(d) ==
    LET id == count + 1
    IN /\ id <= MaxRequests
       /\ count' = id
       /\ IF GateClosed(config, isGenerating)
          THEN /\ last' = Step("request", id, d, "none", GateExit(config), << >>)
               /\ timers' = ClearTimeout(timers, debounceTimer)
               /\ UNCHANGED <<debounceTimer, pending, superseded>>
          ELSE IF ~Eligible[d]
          THEN /\ last' = Step("request", id, d, "none", "ineligible", << >>)
               /\ timers' = ClearTimeout(timers, debounceTimer)
               /\ UNCHANGED <<debounceTimer, pending, superseded>>
          ELSE /\ timers' = ClearTimeout(timers, debounceTimer) \cup {Closure(id, d, completionDelay)}
               /\ debounceTimer' = id
               /\ pending' = pending \cup {id}
               /\ superseded' = superseded \cup Ids(timers)
               /\ last' = Step("request", id, d, "none", "debounced", << >>)
       /\ UNCHANGED <<config, completionDelay, model, handlers, now, cache, isGenerating,
                      calls, order, input, output>>

\* provideInlineCompletionItems scheduling a timer without cancelling the
\* pending one.
ProvideAccumulatingTimers(d) ==
    LET id == count + 1
    IN /\ id <= MaxRequests
       /\ count' = id
       /\ IF GateClosed(config, isGenerating)
          THEN /\ last' = Step("request", id, d, "none", GateExit(config), << >>)
               /\ UNCHANGED <<debounceTimer, timers, pending, superseded>>
          ELSE IF ~Eligible[d]
          THEN /\ last' = Step("request", id, d, "none", "ineligible", << >>)
               /\ UNCHANGED <<debounceTimer, timers, pending, superseded>>
          ELSE /\ timers' = timers \cup {Closure(id, d, completionDelay)}
               /\ debounceTimer' = id
               /\ pending' = pending \cup {id}
               /\ superseded' = superseded \cup Ids(timers)
               /\ last' = Step("request", id, d, "none", "debounced", << >>)
       /\ UNCHANGED <<config, completionDelay, model, handlers, now, cache, isGenerating,
                      calls, order, input, output>>

provideInlineCompletionItems(d) ==
    LET id == count + 1
    IN /\ id <= MaxRequests
       /\ count' = id
       /\ IF GateClosed(config, isGenerating)
          THEN /\ last' = Step("request", id, d, "none", GateExit(config), << >>)
               /\ UNCHANGED <<debounceTimer, timers, pending, superseded>>
          ELSE IF ~Eligible[d]
          THEN /\ last' = Step("request", id, d, "none", "ineligible", << >>)
               /\ UNCHANGED <<debounceTimer, timers, pending, superseded>>
          ELSE /\ timers' = ClearTimeout(timers, debounceTimer) \cup {Closure(id, d, completionDelay)}
               /\ debounceTimer' = id
               /\ pending' = pending \cup {id}
               /\ superseded' = superseded \cup Ids(timers)
               /\ last' = Step("request", id, d, "none", "debounced", << >>)
       /\ UNCHANGED <<config, completionDelay, model, handlers, now, cache, isGenerating,
                      calls, order, input, output>>

-----------------------------------------------------------------------------
(* generateCompletions, run by the timer's callback.                       *)

\* Lines 132-136 for each document of Docs, evaluated once.
DocKeys == [d \in DOMAIN Docs |-> createCacheKey(ContextText(Docs[d]), Docs[d].languageId)]

CacheKeyOf(d) == DocKeys[d]

\* cleanCompletion for each text generateCompletion can return, evaluated once.
Replies == {Trim(o.response) : o \in Outcomes}

\* The replies of the models of ModelNames.
ModelReplies == {ModelReply(m) : m \in Range(ModelNames)}

Cleaned ==
    [d \in DOMAIN Docs |->
       [v \in Replies \cup ModelReplies |-> cleanCompletion(v, Docs[d].languageId)]]

\* generateCompletions with the first cancellation checkpoint returning
\* outside the try block, so that the finally block does not run.
StartFlagStuckOnCancel(r, c, t) ==
    LET cachedCompletion == getCachedCompletion(c, CacheKeyOf(r.doc), t)
    IN IF cachedCompletion # NoCompletion /\ cachedCompletion # Str0
       THEN [awaits |-> FALSE, items |-> <<cachedCompletion>>, exit |-> "hit",
             cache |-> PruneExpired(c, t), flag |-> "unchanged"]
       ELSE IF r.cancelled
       THEN [awaits |-> FALSE, items |-> << >>, exit |-> "cancelledPre",
             cache |-> PruneExpired(c, t), flag |-> "set"]
       ELSE [awaits |-> TRUE, items |-> << >>, exit |-> "called",
             cache |-> PruneExpired(c, t), flag |-> "set"]

\* generateCompletions suspending on the backend call without raising the
\* in-flight flag.
StartWithoutFlag(r, c, t) ==
    LET cachedCompletion == getCachedCompletion(c, CacheKeyOf(r.doc), t)
    IN IF cachedCompletion # NoCompletion /\ cachedCompletion # Str0
       THEN [awaits |-> FALSE, items |-> <<cachedCompletion>>, exit |-> "hit",
             cache |-> PruneExpired(c, t), flag |-> "unchanged"]
       ELSE IF r.cancelled
       THEN [awaits |-> FALSE, items |-> << >>, exit |-> "cancelledPre",
             cache |-> PruneExpired(c, t), flag |-> "cleared"]
       ELSE [awaits |-> TRUE, items |-> << >>, exit |-> "called",
             cache |-> PruneExpired(c, t), flag |-> "unchanged"]

\* getStopSequences, lines 201-215: the stop sequences every language has
\* and those of each language the table knows. A stop sequence is a string
\* the model never looks into; the fence is spelled as three BQ.
commonStop == <<"\n\n", "gravegravegrave", "---">>

languageSpecificStop ==
    [languageId \in {"javascript", "typescript", "python", "java", "csharp", "go", "rust"} |->
       CASE languageId = "javascript" -> <<";", "}", ")", "]">>
         [] languageId = "typescript" -> <<";", "}", ")", "]">>
         [] languageId = "python" -> <<"def ", "class ", "if __name__">>
         [] languageId = "java" -> <<";", "}", ")", "public ", "private ", "protected ">>
         [] languageId = "csharp" -> <<";", "}", ")", "public ", "private ", "protected ">>
         [] languageId = "go" -> <<"}", ")", "func ", "package ">>
         [] languageId = "rust" -> <<"}", ")", "fn ", "struct ", "impl ">>]

getStopSequences(languageId) ==
    commonStop \o (IF languageId \in DOMAIN languageSpecificStop
                   THEN languageSpecificStop[languageId] ELSE << >>)

\* Lines 157-161: the options generateCompletions gives the backend call,
\* read from the settings at the time of the call.
BackendOptions(cfg, languageId) ==
    [temperature |-> cfg.temperature, maxTokens |-> cfg.maxTokens,
     stop |-> getStopSequences(languageId)]

\* OllamaService.generateCompletion, lines 82-91: the body of the request.
\* options?.temperature || 0.1 and options?.maxTokens || 100 take the right
\* operand when the left one is 0.
GenerateRequest(serviceModel, options) ==
    [model |-> serviceModel,
     temperature |-> IF options.temperature # 0 THEN options.temperature ELSE FallbackTemperature,
     num_predict |-> IF options.maxTokens # 0 THEN options.maxTokens ELSE FallbackNumPredict,
     stop |-> options.stop]

\* Lines 131-161: the cache lookup, the flag, the first cancellation
\* checkpoint; the outcome is a return or the await of the backend call.
generateCompletionsStart(r, c, t) ==
    LET cachedCompletion == getCachedCompletion(c, CacheKeyOf(r.doc), t)
    IN IF cachedCompletion # NoCompletion /\ cachedCompletion # Str0
       THEN [awaits |-> FALSE, items |-> <<cachedCompletion>>, exit |-> "hit",
             cache |-> PruneExpired(c, t), flag |-> "unchanged"]
       ELSE IF r.cancelled
       THEN [awaits |-> FALSE, items |-> << >>, exit |-> "cancelledPre",
             cache |-> PruneExpired(c, t), flag |-> "cleared"]
       ELSE [awaits |-> TRUE, items |-> << >>, exit |-> "called",
             cache |-> PruneExpired(c, t), flag |-> "set"]

\* OllamaService.generateCompletion, lines 93-112: the response field of a
\* well-formed reply, trimmed; every failure is thrown as an Error.
generateCompletion(outcome) ==
    IF outcome.kind = "ok"
    THEN [threw |-> FALSE, value |-> Trim(outcome.response)]
    ELSE [threw |-> TRUE, value |-> Str0]

\* generateCompletions without the test of an empty sanitized completion.
ResumeStoringEmpty(r, c, t, reply) ==
    IF reply.threw
    THEN [items |-> << >>, exit |-> "failed", cache |-> c, isGenerating |-> FALSE]
    ELSE IF r.cancelled
    THEN [items |-> << >>, exit |-> "cancelledPost", cache |-> c, isGenerating |-> FALSE]
    ELSE LET cleanedCompletion == Cleaned[r.doc][reply.value]
         IN [items |-> <<cleanedCompletion>>, exit |-> "stored",
             cache |-> setCachedCompletion(c, CacheKeyOf(r.doc), cleanedCompletion, t),
             isGenerating |-> FALSE]

\* generateCompletions without the second cancellation checkpoint.
ResumeWithoutPostCheck(r, c, t, reply) ==
    IF reply.threw
    THEN [items |-> << >>, exit |-> "failed", cache |-> c, isGenerating |-> FALSE]
    ELSE LET cleanedCompletion == Cleaned[r.doc][reply.value]
         IN IF Len(cleanedCompletion) = 0
            THEN [items |-> << >>, exit |-> "empty", cache |-> c, isGenerating |-> FALSE]
            ELSE [items |-> <<cleanedCompletion>>, exit |-> "stored",
                  cache |-> setCachedCompletion(c, CacheKeyOf(r.doc), cleanedCompletion, t),
                  isGenerating |-> FALSE]

\* generateCompletions clearing the flag at the end of the try block and not
\* in a finally block, so that the catch block leaves it set.
ResumeFlagStuckOnFailure(r, c, t, reply) ==
    IF reply.threw
    THEN [items |-> << >>, exit |-> "failed", cache |-> c, isGenerating |-> TRUE]
    ELSE IF r.cancelled
    THEN [items |-> << >>, exit |-> "cancelledPost", cache |-> c, isGenerating |-> FALSE]
    ELSE LET cleanedCompletion == Cleaned[r.doc][reply.value]
         IN IF Len(cleanedCompletion) = 0
            THEN [items |-> << >>, exit |-> "empty", cache |-> c, isGenerating |-> FALSE]
            ELSE [items |-> <<cleanedCompletion>>, exit |-> "stored",
                  cache |-> setCachedCompletion(c, CacheKeyOf(r.doc), cleanedCompletion, t),
                  isGenerating |-> FALSE]

\* Lines 157-187: from the end of the await to the return, the finally
\* block included.
generateCompletionsResume(r, c, t, reply) ==
    IF reply.threw
    THEN [items |-> << >>, exit |-> "failed", cache |-> c, isGenerating |-> FALSE]
    ELSE IF r.cancelled
    THEN [items |-> << >>, exit |-> "cancelledPost", cache |-> c, isGenerating |-> FALSE]
    ELSE LET cleanedCompletion == Cleaned[r.doc][reply.value]
         IN IF Len(cleanedCompletion) = 0
            THEN [items |-> << >>, exit |-> "empty", cache |-> c, isGenerating |-> FALSE]
            ELSE [items |-> <<cleanedCompletion>>, exit |-> "stored",
                  cache |-> setCachedCompletion(c, CacheKeyOf(r.doc), cleanedCompletion, t),
                  isGenerating |-> FALSE]

\* The creation order of the entries that are left in cache c.
Surviving(keys, c) == SelectSeq(keys, LAMBDA k : k \in Keys(c))

\* The callback of setTimeout, lines 67-75, for the pending timer r.
TimerFire(r) ==
    /\ r \in timers
    /\ timers' = timers \ {r}
    /\ LET g == generateCompletionsStart(r, cache, now)
       IN /\ cache' = g.cache
          /\ order' = Surviving(order, g.cache)
          /\ isGenerating' = CASE g.flag = "set" -> TRUE
                               [] g.flag = "cleared" -> FALSE
                               [] OTHER -> isGenerating
          /\ calls' = IF g.awaits
                      THEN LET options == BackendOptions(config, Docs[r.doc].languageId)
                           IN calls \cup
                                {[r EXCEPT !.options = [temperature |-> options.temperature,
                                                       maxTokens |-> options.maxTokens],
                                          !.request = GenerateRequest(model, options)]}
                      ELSE calls
          /\ pending' = IF g.awaits THEN pending ELSE pending \ {r.id}
          /\ last' = Step("fire", r.id, 0, "none", g.exit, g.items)
    /\ UNCHANGED <<config, completionDelay, model, handlers, now, debounceTimer, count,
                   superseded, input, output>>

\* The backend call of request r ends with an outcome and generateCompletions
\* resumes; the callback resolves the promise with what it returns.
BackendRespond(r, outcome) ==
    /\ r \in calls
    /\ calls' = calls \ {r}
    /\ LET g == generateCompletionsResume(r, cache, now, generateCompletion(outcome))
       IN /\ cache' = g.cache
          /\ order' = IF g.exit = "stored"
                      THEN Surviving(Append(SelectSeq(order, LAMBDA k : k # CacheKeyOf(r.doc)),
                                            CacheKeyOf(r.doc)),
                                     g.cache)
                      ELSE order
          /\ isGenerating' = g.isGenerating
          /\ pending' = pending \ {r.id}
          /\ last' = Step("respond", r.id, 0, outcome.kind, g.exit, g.items)
    /\ UNCHANGED <<config, completionDelay, model, handlers, now, debounceTimer, timers,
                   count, superseded, input, output>>

-----------------------------------------------------------------------------
(* The environment: the text host, the clock and the settings.             *)

\* The host cancels the token of a request whose callback or continuation
\* is still to run.
Cancel(r) ==
    /\ ~r.cancelled
    /\ \/ /\ r \in timers
          /\ timers' = (timers \ {r}) \cup {[r EXCEPT !.cancelled = TRUE]}
          /\ calls' = calls
       \/ /\ r \in calls
          /\ calls' = (calls \ {r}) \cup {[r EXCEPT !.cancelled = TRUE]}
          /\ timers' = timers
    /\ last' = Step("cancel", r.id, 0, "none", "none", << >>)
    /\ UNCHANGED <<config, completionDelay, model, handlers, now, cache, isGenerating,
                   debounceTimer, count, pending, superseded, order, input, output>>

Tick(t) ==
    /\ t > now
    /\ now' = t
    /\ last' = Step("tick", 0, 0, "none", "none", << >>)
    /\ UNCHANGED <<config, completionDelay, model, handlers, cache, isGenerating,
                   debounceTimer, timers, calls, count, pending, superseded, order, input,
                   output>>

\* A change of the settings without the listener of the constructor: the
\* field keeps the delay read at construction.
ConfigChangeUnheard(cfg) ==
    /\ cfg # config
    /\ config' = cfg
    /\ last' = Step("config", 0, 0, "none", "none", << >>)
    /\ UNCHANGED <<completionDelay, now, cache, isGenerating, debounceTimer, timers, calls,
                   count, pending, superseded, order, input, output, model, handlers>>

\* The user edits the settings of section ollama; the listener the
\* constructor registered runs updateConfig.
ConfigChange(cfg) ==
    /\ cfg # config
    /\ config' = cfg
    /\ completionDelay' = updateConfig(cfg)
    /\ last' = Step("config", 0, 0, "none", "none", << >>)
    /\ UNCHANGED <<now, cache, isGenerating, debounceTimer, timers, calls, count, pending,
                   superseded, order, input, output, model, handlers>>

\* Every backend call ends: fetch is given AbortSignal.timeout(30000).
BackendReturns == \E r \in calls, outcome \in Outcomes : BackendRespond(r, outcome)

Next ==
    \/ \E d \in DOMAIN Docs : provideInlineCompletionItems(d)
    \/ \E r \in timers : TimerFire(r)
    \/ BackendReturns
    \/ \E r \in timers \cup calls : Cancel(r)
    \/ \E t \in Times : Tick(t)
    \/ \E cfg \in Configs : ConfigChange(cfg)

Spec == Init /\ [][Next]_vars

\* The runtime runs the continuation of every backend call that has ended.
FairSpec == Spec /\ WF_vars(BackendReturns)

-----------------------------------------------------------------------------
(* Properties.                                                             *)

\* The step is the fire of the pending timer r.
FireOf(r) == r \in timers /\ r \notin timers' /\ last'.op = "fire" /\ last'.id = r.id

\* The step is the end of the backend call of r.
RespondOf(r) == r \in calls /\ r \notin calls' /\ last'.op = "respond" /\ last'.id = r.id

\* The cache holds an entry for key that has not expired.
Live(key) ==
    {i \in DOMAIN cache : cache[i].key = key /\ now - cache[i].timestamp < cacheExpiryMs}

FirstLive(key) == CHOOSE i \in Live(key) : \A j \in Live(key) : i <= j

Entries(c) == {c[i] : i \in DOMAIN c}

FailureKinds == {"network", "timeout", "status", "malformed"}

\* C1: in every reachable state at most one backend call started by
\* generateCompletions is in flight.
C1_AtMostOneCallInFlight == Cardinality(calls) <= 1

\* A request arrived while a call was in flight and was turned away.
C1_Witness == last.op = "request" /\ last.exit = "busy" /\ Cardinality(calls) = 1

\* C2: every call of provideInlineCompletionItems resolves: a request whose
\* promise is not resolved still has the timer callback or the continuation
\* that resolves it, also when a later request replaced its timer.
C2_EveryRequestResolves == pending \subseteq Ids(timers) \cup Ids(calls)

\* C3: a request whose timer had not fired when a later request scheduled
\* its own never fires, never starts a backend call, never reads or writes the
\* cache and never returns a suggestion; only the timer scheduled last is
\* pending.
C3_SupersededNeverProceeds ==
    /\ \A id \in superseded :
         /\ id \notin Ids(timers)
         /\ id \notin Ids(calls)
         /\ id \in pending
         /\ ~(last.id = id /\ last.op \in {"fire", "respond"})
    /\ Ids(timers) \subseteq {debounceTimer}

\* The timer of the later request has fired after it replaced an earlier one.
C3_Witness == superseded # {} /\ last.op = "fire" /\ last.id \notin superseded

\* C4: whenever a non-empty suggestion list is returned to the host, it
\* belongs to the request that arrived last.
C4_NewestWins ==
    (last.op \in {"fire", "respond"} /\ last.items # << >>) => last.id = count

\* C5: the flag isGenerating is never set without a backend call in flight,
\* and whenever it is set it is cleared again.
C5_FlagReleased ==
    /\ [](calls = {} => ~isGenerating)
    /\ (isGenerating ~> ~isGenerating)

\* A backend call has failed and the flag is clear.
C5_Witness == last.op = "respond" /\ last.exit = "failed" /\ ~isGenerating /\ calls = {}

\* C6: with the token cancelled, the timer fire that misses the cache starts
\* no backend call, and it and the end of a backend call return an empty
\* array, add no cache entry and leave the flag clear.
C6_CancelledAborts ==
    [][/\ \A r \in timers :
            (FireOf(r) /\ r.cancelled /\ Live(CacheKeyOf(r.doc)) = {})
              => /\ last'.items = << >>
                 /\ r.id \notin pending'
                 /\ calls' = calls
                 /\ Entries(cache') \subseteq Entries(cache)
                 /\ ~isGenerating'
       /\ \A r \in calls :
            (RespondOf(r) /\ r.cancelled)
              => /\ last'.items = << >>
                 /\ r.id \notin pending'
                 /\ cache' = cache
                 /\ ~isGenerating']_vars

\* A well-formed reply arrived for a request cancelled during the call.
C6_Witness == last.op = "respond" /\ last.kind = "ok" /\ last.exit = "cancelledPost"

\* C7: a request made while completion is disabled, while a generation is
\* in flight, or rejected by the eligibility filter returns an empty array at
\* once and leaves the cache, the flag, the pending timer and the calls alone.
C7_RejectedRequestChangesNothing ==
    [][(/\ count' = count + 1
        /\ \/ ~config.enabled
           \/ ~config.enableAutoCompletion
           \/ isGenerating
           \/ ~shouldProvideCompletion(Docs[last'.doc]))
         => /\ last'.items = << >>
            /\ pending' = pending
            /\ UNCHANGED <<cache, isGenerating, debounceTimer, timers, calls>>]_vars

\* The filter rejected a request while an earlier timer was pending.
C7_Witness == last.op = "request" /\ last.exit = "ineligible" /\ timers # {} /\ cache # << >>

\* C8: when the backend call fails, the request resolves with an empty
\* array, the cache is left as it was and the flag is cleared.
C8_FailureDegradesToEmpty ==
    [][\A r \in calls :
         (RespondOf(r) /\ last'.kind \in FailureKinds)
           => /\ last'.items = << >>
              /\ r.id \notin pending'
              /\ cache' = cache
              /\ ~isGenerating']_vars

\* A reply with a malformed body has been handled.
C8_Witness == last.op = "respond" /\ last.kind = "malformed" /\ last.id \notin pending

\* C9: a timer fire that finds a live cache entry for its key returns the
\* stored completion, starts no backend call and does not set the flag.
C9_HitServesStoredCompletion ==
    [][\A r \in timers :
         (FireOf(r) /\ Live(CacheKeyOf(r.doc)) # {})
           => /\ last'.items = <<cache[FirstLive(CacheKeyOf(r.doc))].completion>>
              /\ r.id \notin pending'
              /\ calls' = calls
              /\ isGenerating' = isGenerating
              /\ ~isGenerating']_vars

\* A second request for a key was served from the cache one millisecond
\* before the entry's expiry.
C9_Witness == last.op = "fire" /\ last.exit = "hit" /\ now = cacheExpiryMs - 1 /\ calls = {}

\* The keys of the n entries created last, of a creation order.
MostRecent(keys, n) == {keys[i] : i \in (Len(keys) - n + 1)..Len(keys)}

\* C10: when setCachedCompletion makes the store exceed maxCacheSize, the
\* entries retained are the maxCacheSize created last, the one just inserted
\* among them.
C10_RetainsMostRecent ==
    [][\A r \in calls :
         (RespondOf(r) /\ last'.exit = "stored")
           => LET key == CacheKeyOf(r.doc)
                  all == Append(SelectSeq(order, LAMBDA k : k # key), key)
              IN Len(all) > maxCacheSize => Keys(cache') = MostRecent(all, maxCacheSize)]_vars

-----------------------------------------------------------------------------
(* The cache on its own: any sequence of stores, lookups and clears.       *)

\* The completions generateCompletions stores: the non-empty sanitized replies.
StoredValues(d) == {Cleaned[d][v] : v \in Replies} \ {Str0}

\* setCachedCompletion(cacheKey, cleanedCompletion) for the key of document d.
CacheStore(d, v) ==
    LET key == CacheKeyOf(d)
    IN /\ cache' = setCachedCompletion(cache, key, v, now)
       /\ order' = Surviving(Append(SelectSeq(order, LAMBDA k : k # key), key), cache')
       /\ last' = Step("store", 0, d,
                       IF key \in Keys(cache) THEN "replaced" ELSE "new",
                       IF Cardinality(Keys(cache) \ {key}) + 1 > maxCacheSize
                       THEN "overflow" ELSE "fits",
                       <<v>>)
       /\ UNCHANGED <<config, completionDelay, model, handlers, now, isGenerating,
                      debounceTimer, timers, calls, count, pending, superseded, input,
                      output>>

\* getCachedCompletion(cacheKey) for the key of document d: the filter of
\* the expired entries and the find.
CacheLookup(d) ==
    LET key == CacheKeyOf(d)
        found == getCachedCompletion(cache, key, now)
    IN /\ cache' = PruneExpired(cache, now)
       /\ order' = Surviving(order, cache')
       /\ last' = Step("lookup", 0, d,
                       IF key \notin Keys(cache) THEN "absent"
                       ELSE IF \A i \in DOMAIN cache :
                                 cache[i].key = key => now - cache[i].timestamp >= cacheExpiryMs
                       THEN "expired" ELSE "live",
                       IF found = NoCompletion THEN "miss" ELSE "hit",
                       IF found = NoCompletion THEN << >> ELSE <<found>>)
       /\ UNCHANGED <<config, completionDelay, model, handlers, now, isGenerating,
                      debounceTimer, timers, calls, count, pending, superseded, input,
                      output>>

\* clearCache(), called by handleConfigurationChange and deactivate.
CacheClear ==
    /\ cache' = clearCache
    /\ order' = << >>
    /\ last' = Step("clear", 0, 0, "none", "none", << >>)
    /\ UNCHANGED <<config, completionDelay, model, handlers, now, isGenerating,
                   debounceTimer, timers, calls, count, pending, superseded, input, output>>

CacheNext ==
    \/ \E d \in DOMAIN Docs : \E v \in StoredValues(d) : Eligible[d] /\ CacheStore(d, v)
    \/ \E d \in DOMAIN Docs : Eligible[d] /\ CacheLookup(d)
    \/ CacheClear
    \/ \E t \in Times : Tick(t)

CacheSpec == Init /\ [][CacheNext]_vars

\* C11: in every reachable state, after any sequence of stores, lookups and
\* clears, the cache holds at most maxCacheSize entries.
C11_SizeBounded == Len(cache) <= maxCacheSize

\* A store into a full cache has just evicted an entry.
C11_Witness == last.op = "store" /\ last.exit = "overflow" /\ Len(cache) = maxCacheSize

\* The step is a lookup of the key of document d.
LookupOf(d) == last'.op = "lookup" /\ last'.doc = d

\* The step is a store of completion v under the key of document d.
StoreOf(d, v) == last'.op = "store" /\ last'.doc = d /\ last'.items = <<v>>

\* C12: a lookup at a time cacheExpiryMs or more after the insertion of the
\* entries of its key reports a miss: no entry is returned at a read time
\* >= its timestamp + cacheExpiryMs.
C12_ExpiredNeverReturned ==
    [][\A d \in DOMAIN Docs :
         (/\ LookupOf(d)
          /\ \A i \in DOMAIN cache :
               cache[i].key = CacheKeyOf(d) => now >= cache[i].timestamp + cacheExpiryMs)
           => /\ last'.exit = "miss"
              /\ last'.items = << >>]_vars

\* A lookup found only an expired entry of its key and reported a miss.
C12_Witness ==
    last.op = "lookup" /\ last.kind = "expired" /\ last.exit = "miss" /\ now = cacheExpiryMs

\* C13: after setCachedCompletion(k, v), getCachedCompletion(k) returns v at
\* every read time before the expiry of the entry, unless the store exceeded
\* maxCacheSize and evicted k.
C13_StoreThenLookup ==
    [][\A d \in DOMAIN Docs : \A v \in StoredValues(d) :
         StoreOf(d, v)
           => \A t \in Times :
                (t >= now /\ t - now < cacheExpiryMs)
                  => LET found == getCachedCompletion(cache', CacheKeyOf(d), t)
                     IN \/ found # NoCompletion /\ found = v
                        \/ /\ last'.exit = "overflow"
                           /\ CacheKeyOf(d) \notin Keys(cache')]_vars

\* A store has replaced the completion of its key by another one, and a
\* lookup returns the new one.
C13_Witness ==
    /\ last.op = "store"
    /\ last.kind = "replaced"
    /\ LET found == getCachedCompletion(cache, CacheKeyOf(last.doc), now)
       IN found # NoCompletion /\ found = last.items[1]

\* C14: in every reachable state no two cache entries share a key, and after
\* a store under a key the only entry of that key is the one just stored.
C14_KeysUnique ==
    /\ [](\A i, j \in DOMAIN cache : cache[i].key = cache[j].key => i = j)
    /\ [][\A d \in DOMAIN Docs : \A v \in StoredValues(d) :
            StoreOf(d, v)
              => \A i \in DOMAIN cache' :
                   cache'[i].key = CacheKeyOf(d)
                     => cache'[i].completion = v /\ cache'[i].timestamp = now]_vars

\* A store under a key the cache held already, at a later time, left one
\* entry of that key beside an entry of another key.
C14_Witness ==
    /\ last.op = "store"
    /\ last.kind = "replaced"
    /\ Len(cache) = 2
    /\ \E i \in DOMAIN cache :
         cache[i].key = CacheKeyOf(last.doc) /\ cache[i].timestamp = cacheExpiryMs - 1

\* C15: in every reachable state no cache entry holds an empty completion;
\* a backend reply whose sanitized text is empty returns an empty array and
\* leaves the cache as it was, so that the next timer fire of the same key
\* finds no entry of it and calls the backend again.
C15_EmptyNeverCached ==
    /\ [](\A i \in DOMAIN cache : cache[i].completion # Str0)
    /\ [][\A r \in calls :
            (RespondOf(r) /\ last'.exit = "empty")
              => /\ cache' = cache
                 /\ last'.items = << >>]_vars
    /\ [][\A r \in timers :
            (FireOf(r) /\ ~r.cancelled /\ Live(CacheKeyOf(r.doc)) = {})
              => /\ last'.exit = "called"
                 /\ r.id \in Ids(calls')]_vars

\* The reply of the second request was prose only, sanitized to the empty
\* string, and the cache holds no entry.
C15_Witness ==
    last.op = "respond" /\ last.kind = "ok" /\ last.exit = "empty" /\ last.id = 2 /\ cache = << >>

-----------------------------------------------------------------------------
(* The sanitizer on its own: cleanCompletion applied to raw replies.       *)

Indented == <<" ", " ", "r", "e", "t">>

\* A line one character short of the cap of the length.
LongLine == [i \in 1..(MaxCompletionLength - 1) |-> "x"]

\* The fragments raw replies are made of: a fence opener with a language
\* tag, a fence closer, indented code, a line feed, a line of prose, code, a
\* long line and a blank.
Pieces ==
    { Fence \o <<"p", "y", NL>>, <<NL>> \o Fence, Indented, <<NL>>, Prose, Code2, LongLine, <<" ">> }

\* A reply made of a fence opener tagged python, a line of indented code, a
\* sentence about the code and a fence closer.
ExampleReply ==
    Fence \o
    << "p", "y", "t", "h", "o", "n", NL, " ", " ", " ", " ", "r", "e", "t", "u", "r",
      "n", " ", "a", " ", "+", " ", "b", NL, "T", "h", "i", "s", " ", "f", "u", "n",
      "c", "t", "i", "o", "n", " ", "a", "d", "d", "s", " ", "t", "w", "o", " ", "n",
      "u", "m", "b", "e", "r", "s", ".", NL >> \o
    Fence

RECURSIVE TextsOf(_)
TextsOf(n) ==
    IF n = 0 THEN {Str0}
    ELSE TextsOf(n - 1) \cup {p \o t : p \in Pieces, t \in TextsOf(n - 1)}

RawTexts == TextsOf(MaxPieces) \cup {ExampleReply}

SanitizerInit ==
    /\ Constructed(DefaultConfig)
    /\ input \in [text : RawTexts, languageId : {"python", "javascript"}]
    /\ output = << >>

\* cleanCompletion applied to the raw reply, then to its own result.
Sanitize ==
    /\ Len(output) < MaxPasses
    /\ output' = Append(output,
                        cleanCompletion(IF output = << >> THEN input.text ELSE output[Len(output)],
                                        input.languageId))
    /\ UNCHANGED <<config, completionDelay, model, handlers, now, cache, isGenerating,
                   debounceTimer, timers, calls, count, pending, superseded, order, last,
                   input>>

SanitizerNext == Sanitize

SanitizerSpec == SanitizerInit /\ [][SanitizerNext]_vars

\* C16: the sanitizer is idempotent: cleanCompletion applied to its own
\* result returns that result.
C16_Idempotent == \A i \in 2..Len(output) : output[i] = output[i - 1]

\* C17: cleanCompletion returns at most 500 characters for every input, a
\* longer result being cut at 500.
C17_LengthCapped == \A i \in 1..Len(output) : Len(output[i]) <= 500

\* A reply longer than 500 characters has been sanitized to 500 characters.
C17_Witness ==
    /\ output # << >>
    /\ Len(input.text) > 500
    /\ Len(output[1]) = 500

-----------------------------------------------------------------------------
(* The eligibility filter on its own.                                      *)

\* The characters of the lines: a word character, a blank, and the
\* characters of the comment openers.
LineChars == {"a", " ", "#", "/", "*"}

RECURSIVE LinesOf(_)
LinesOf(n) ==
    IF n = 0 THEN {Str0}
    ELSE LinesOf(n - 1) \cup {<<c>> \o l : c \in LineChars, l \in LinesOf(n - 1)}

\* Documents of one line with the cursor anywhere on it; plaintext is a
\* language the table of comment patterns does not hold.
FilterDocs ==
    {doc \in {[languageId |-> lang, lines |-> <<l>>, line |-> 0, character |-> c] :
                lang \in {"python", "javascript", "plaintext"},
                l \in LinesOf(MaxLineLength),
                c \in 0..MaxLineLength} :
       doc.character <= Len(doc.lines[1])}

FilterInit ==
    /\ Constructed(DefaultConfig)
    /\ input \in FilterDocs
    /\ output = << >>

\* shouldProvideCompletion applied to the document and position.
Filter ==
    /\ output = << >>
    /\ output' = <<shouldProvideCompletion(input)>>
    /\ UNCHANGED <<config, completionDelay, model, handlers, now, cache, isGenerating,
                   debounceTimer, timers, calls, count, pending, superseded, order, last,
                   input>>

FilterNext == Filter

FilterSpec == FilterInit /\ [][FilterNext]_vars

\* The text of the cursor line before the cursor, trimmed.
TrimmedPrefix(doc) == Trim(SubSeq(doc.lines[doc.line + 1], 1, doc.character))

\* The line has a word character at column i, counted from 1.
WordAt(doc, i) ==
    i \in DOMAIN doc.lines[doc.line + 1] /\ IsWordChar(doc.lines[doc.line + 1][i])

-----------------------------------------------------------------------------
(* OllamaService.streamCompletion: the reader loop over the reply's body.  *)

\* A record of the stream as a line of text, JSON cut down to an opening
\* brace, the characters of the response, a comma, t or f for done and a
\* closing brace.
Record(response, done) ==
    <<"{">> \o response \o <<",", IF done THEN "t" ELSE "f", "}">>

\* JSON.parse of a line and the reading of its fields: white space around
\* the text is allowed, any other text is a SyntaxError.
JSONParse(line) ==
    LET s == Trim(line)
        n == Len(s)
    IN IF /\ n >= 4
          /\ s[1] = "{"
          /\ s[n] = "}"
          /\ s[n - 1] \in {"t", "f"}
          /\ s[n - 2] = ","
          /\ \A i \in 2..(n - 3) : s[i] \in {"a", "b"}
       THEN [parsed |-> TRUE, response |-> SubSeq(s, 2, n - 3), done |-> s[n - 1] = "t"]
       ELSE [parsed |-> FALSE, response |-> Str0, done |-> FALSE]

\* chunk.split('\n').filter(line => line.trim())
ChunkLines(chunk) == SelectSeq(SplitLines(chunk), LAMBDA line : Trim(line) # Str0)

\* The for loop over the lines of a chunk with a catch that ends the loop
\* at the first line JSON.parse rejects.
RECURSIVE ConsumeLinesUntilMalformed(_, _)
ConsumeLinesUntilMalformed(lines, yielded) ==
    IF lines = << >> THEN [yielded |-> yielded, returned |-> FALSE]
    ELSE LET json == JSONParse(Head(lines))
         IN IF ~json.parsed THEN [yielded |-> yielded, returned |-> FALSE]
            ELSE LET now1 == IF json.response # Str0 THEN Append(yielded, json.response)
                             ELSE yielded
                 IN IF json.done THEN [yielded |-> now1, returned |-> TRUE]
                    ELSE ConsumeLinesUntilMalformed(Tail(lines), now1)

\* The for loop over the lines of a chunk, lines 156-169: what has been
\* yielded after it and whether the generator has returned.
RECURSIVE ConsumeLines(_, _)
ConsumeLines(lines, yielded) ==
    IF lines = << >> THEN [yielded |-> yielded, returned |-> FALSE]
    ELSE LET json == JSONParse(Head(lines))
         IN IF ~json.parsed THEN ConsumeLines(Tail(lines), yielded)
            ELSE LET now1 == IF json.response # Str0 THEN Append(yielded, json.response)
                             ELSE yielded
                 IN IF json.done THEN [yielded |-> now1, returned |-> TRUE]
                    ELSE ConsumeLines(Tail(lines), now1)

\* The lines a body is made of: records with and without a response, a
\* record with done set, a line that is no JSON and a blank line.
StreamLines ==
    { Record(<<"a">>, FALSE), Record(Str0, FALSE), Record(<<"b">>, TRUE), <<"{", "a">>, <<" ">> }

\* The bodies of up to n lines, each line ended by a line feed.
RECURSIVE BodiesOf(_)
BodiesOf(n) ==
    IF n = 0 THEN {Str0}
    ELSE BodiesOf(n - 1) \cup {l \o <<NL>> \o b : l \in StreamLines, b \in BodiesOf(n - 1)}

\* The generator after fetch: nothing read, nothing yielded.
StreamInit ==
    /\ Constructed(DefaultConfig)
    /\ input \in BodiesOf(MaxRecords)
    /\ output = [phase |-> "reading", yielded |-> << >>, chunks |-> << >>]

\* One turn of the while loop in which reader.read() delivers the next n
\* characters of the body.
StreamRead(n) ==
    /\ output.phase = "reading"
    /\ Len(output.chunks) < MaxChunks
    /\ Len(output.chunks) = MaxChunks - 1 => n = Len(input)
    /\ LET chunk == SubSeq(input, 1, n)
           g == ConsumeLines(ChunkLines(chunk), output.yielded)
       IN /\ input' = SubSeq(input, n + 1, Len(input))
          /\ output' = [phase |-> IF g.returned THEN "returned" ELSE "reading",
                        yielded |-> g.yielded,
                        chunks |-> Append(output.chunks, chunk)]
    /\ UNCHANGED <<config, completionDelay, model, handlers, now, cache, isGenerating,
                   debounceTimer, timers, calls, count, pending, superseded, order, last>>

\* reader.read() reports the end of the body: the loop breaks.
StreamEnd ==
    /\ output.phase = "reading"
    /\ input = Str0
    /\ output' = [output EXCEPT !.phase = "ended"]
    /\ UNCHANGED <<config, completionDelay, model, handlers, now, cache, isGenerating,
                   debounceTimer, timers, calls, count, pending, superseded, order, last,
                   input>>

\* reader.read() rejects: the outer catch throws "Failed to stream completion".
StreamFail ==
    /\ output.phase = "reading"
    /\ output' = [output EXCEPT !.phase = "failed"]
    /\ UNCHANGED <<config, completionDelay, model, handlers, now, cache, isGenerating,
                   debounceTimer, timers, calls, count, pending, superseded, order, last,
                   input>>

StreamNext ==
    \/ \E n \in 1..Len(input) : StreamRead(n)
    \/ StreamEnd
    \/ StreamFail

StreamSpec == StreamInit /\ [][StreamNext]_vars

\* The lines of the chunks read so far, in order, the blank ones left out.
RECURSIVE SeenLines(_)
SeenLines(chunks) ==
    IF chunks = << >> THEN << >>
    ELSE SeenLines(SubSeq(chunks, 1, Len(chunks) - 1))
           \o SelectSeq(SplitLines(chunks[Len(chunks)]), LAMBDA l : \E i \in DOMAIN l : ~IsSpace(l[i]))

\* The well-formed records among lines, up to and including the first one
\* with done set.
RecordsUntilDone(lines) ==
    LET records == SelectSeq([i \in DOMAIN lines |-> JSONParse(lines[i])], LAMBDA j : j.parsed)
    IN IF \E i \in DOMAIN records : records[i].done
       THEN SubSeq(records, 1,
                   CHOOSE i \in DOMAIN records :
                     records[i].done /\ \A k \in 1..(i - 1) : ~records[k].done)
       ELSE records

\* The non-empty response fragments of records, in order.
Fragments(records) ==
    LET kept == SelectSeq(records, LAMBDA j : j.response # Str0)
    IN [i \in DOMAIN kept |-> kept[i].response]

-----------------------------------------------------------------------------
(* The provider under changes of every setting it reads.                   *)

\* The settings with a second value of the delay, the temperature and the
\* token budget.
FullConfigs ==
    [enabled : BOOLEAN, enableAutoCompletion : BOOLEAN,
     completionDelay : {DefaultCompletionDelay, 2 * DefaultCompletionDelay},
     temperature : {0, DefaultTemperature, 7},
     maxTokens : {0, DefaultMaxTokens}]

ConfigInit ==
    /\ \E cfg \in {c \in FullConfigs : c.enabled} : Constructed(cfg)
    /\ input = << >>
    /\ output = << >>

\* Requests for the first document of Docs, backend calls that fail, and
\* changes of the settings at any moment.
ConfigNext ==
    \/ provideInlineCompletionItems(1)
    \/ \E r \in timers : TimerFire(r)
    \/ \E r \in calls : BackendRespond(r, [kind |-> "network", response |-> Str0])
    \/ \E cfg \in FullConfigs : ConfigChange(cfg)

ConfigSpec == ConfigInit /\ [][ConfigNext]_vars

-----------------------------------------------------------------------------
(* The timer's callback: token, settings and the in-flight flag.            *)

\* C21: when the timer of a request whose token is already cancelled fires,
\* the token is checked before the cache: the step neither reads nor prunes
\* the cache and returns no suggestion, also when a live entry exists for
\* the request's key.
C21_TokenCheckedBeforeCache ==
    [][\A r \in timers :
          (FireOf(r) /\ r.cancelled) =>
              /\ cache' = cache
              /\ last'.exit # "hit"
              /\ last'.items = << >>]_vars

\* C22: at most one debounce timer is pending, and it is the one whose
\* handle the provider holds; a request that schedules a timer removes the
\* one that was pending.
C22_AtMostOneTimer ==
    /\ [](Cardinality(timers) <= 1 /\ Ids(timers) \subseteq {debounceTimer})
    /\ [][(last'.op = "request" /\ last'.exit = "debounced") =>
              (timers' \cap timers = {} /\ Cardinality(timers') = 1)]_vars

\* A third request has replaced the timer of the second, which had replaced
\* the timer of the first.
C22_Witness ==
    /\ last.op = "request" /\ last.exit = "debounced"
    /\ Cardinality(superseded) >= 2
    /\ Cardinality(timers) = 1

\* C24: no backend call starts while enabled or enableAutoCompletion is
\* false: a timer that fires after completion was switched off makes no
\* call and returns no suggestion.
C24_NoCallWhileDisabled ==
    [][\A r \in timers :
          (FireOf(r) /\ (~config.enabled \/ ~config.enableAutoCompletion)) =>
              /\ calls' = calls
              /\ last'.items = << >>]_vars

\* C25: between steps the in-flight flag is true exactly when a backend
\* call started by generateCompletions is outstanding.
C25_FlagIffCallOutstanding == isGenerating <=> calls # {}

\* The callback has suspended on a backend call with the flag raised, and an
\* earlier call has already returned and lowered it.
C25_Witness ==
    /\ last.op = "fire" /\ last.exit = "called"
    /\ isGenerating /\ Cardinality(calls) = 1
    /\ cache # << >>

\* C26: while the in-flight flag is true no debounce timer is pending; a
\* timer is scheduled only while no generation is in flight, and a
\* generation starts only from the fire of the pending timer.
C26_NoTimerWhileGenerating ==
    /\ [](isGenerating => timers = {})
    /\ [][/\ timers' \ timers # {} => ~isGenerating
          /\ (isGenerating' /\ ~isGenerating) =>
                 \E r \in timers : FireOf(r) /\ timers = {r}]_vars

\* A request arrived during a generation and was turned away without a
\* timer.
C26_Witness ==
    /\ isGenerating /\ timers = {}
    /\ last.op = "request" /\ last.exit = "busy"

-----------------------------------------------------------------------------
(* The stream and the way the body is cut into chunks.                      *)

\* The characters of the chunks read so far, in order: the part of the
\* body that has been delivered.
RECURSIVE Delivered(_)
Delivered(chunks) ==
    IF chunks = << >> THEN Str0
    ELSE Delivered(SubSeq(chunks, 1, Len(chunks) - 1)) \o chunks[Len(chunks)]

\* The newline-delimited records of a body, the blank lines left out.
BodyLines(body) ==
    SelectSeq(SplitLines(body), LAMBDA l : \E i \in DOMAIN l : ~IsSpace(l[i]))

\* C28: what streamCompletion yields depends only on the newline-delimited
\* records of the body, not on how the body is cut into chunks: when the
\* generator has finished, it has yielded the fragments of the records of
\* the delivered body up to the first record with done set, and it has
\* returned at a done record exactly when the delivered body holds one,
\* also when a record spans two chunks.
C28_ChunkingIrrelevant ==
    output.phase \in {"ended", "returned"} =>
        /\ output.yielded = Fragments(RecordsUntilDone(BodyLines(Delivered(output.chunks))))
        /\ output.phase = "returned"
             <=> \E i \in DOMAIN BodyLines(Delivered(output.chunks)) :
                   JSONParse(BodyLines(Delivered(output.chunks))[i]).done

-----------------------------------------------------------------------------
(* The sanitizer: fences and explanatory lines.                             *)

\* The text with its opener and its closer removed when it has both, and
\* the text itself otherwise.
PairedUnfence(s) ==
    IF StripOpener(s) # s /\ StripCloser(StripOpener(s)) # StripOpener(s)
    THEN StripCloser(StripOpener(s))
    ELSE s

\* The lines of ls before the first explanatory one, joined and cut at the
\* cap of the length.
KeptText(ls) ==
    LET marked == {i \in DOMAIN ls : isExplanatoryLine(ls[i])}
        n == IF marked = {} THEN Len(ls)
             ELSE (CHOOSE i \in marked : \A j \in marked : i <= j) - 1
        joined == JoinLines(SubSeq(ls, 1, n))
    IN SubSeq(joined, 1, IF Len(joined) > MaxCompletionLength
                         THEN MaxCompletionLength ELSE Len(joined))

\* C29: cleanCompletion strips the fence opener and the fence closer only
\* when both are present, at most one of each, and no fence in the middle of
\* the text: a text with only an opener or only a closer keeps its fence.
C29_FencesStrippedInPairs ==
    Len(output) >= 1 =>
        output[1] = KeptText(SplitLines(PairedUnfence(Trim(input.text))))

\* C30: after trimming and fence stripping cleanCompletion keeps exactly the
\* lines before the first line that matches the explanatory-text heuristic
\* and drops that line and every later one, so that no line of the result
\* matches the heuristic; the python reply made of a fence opener, the line
\* "    return a + b", a sentence about the function and a fence closer is
\* sanitized to "    return a + b".
C30_KeepsLinesBeforeExplanation ==
    Len(output) >= 1 =>
        /\ output[1] = KeptText(SplitLines(StripCloser(StripOpener(Trim(input.text)))))
        /\ \A l \in Range(SplitLines(output[1])) : ~isExplanatoryLine(l)
        /\ input.text = ExampleReply =>
             output[1] = <<" ", " ", " ", " ", "r", "e", "t", "u", "r", "n", " ", "a", " ", "+",
                           " ", "b">>

\* The example reply has been sanitized: the sentence and the closer after
\* it are gone and the indented line is left.
C30_Witness ==
    /\ input.text = ExampleReply
    /\ input.languageId = "python"
    /\ Len(output) >= 1
    /\ Len(output[1]) = 16
    /\ Len(SplitLines(StripCloser(StripOpener(Trim(input.text))))) = 2

-----------------------------------------------------------------------------
(* The body of the backend request.                                         *)

\* C27: on a cache miss the request the service posts carries the configured
\* temperature as options.temperature, the configured maxTokens as
\* options.num_predict and the stop sequences of the document's language as
\* options.stop, for every configured value, 0 included.
C27_RequestCarriesSettings ==
    [][\A c \in calls' \ calls :
          /\ c.request.temperature = config.temperature
          /\ c.request.num_predict = config.maxTokens
          /\ c.request.stop = getStopSequences(Docs[c.doc].languageId)]_vars

-----------------------------------------------------------------------------
(* The switch of the model and the cache.                                   *)

\* handleConfigurationChange, extension.ts lines 172-196, for a change of
\* the setting model to m with enabled set: the service is given the new
\* model and the handler suspends on the connection test. The listener of
\* the provider's constructor runs on the same event and leaves
\* completionDelay as it is.
handleConfigurationChange(m) ==
    /\ config.enabled
    /\ IndexOf(model, ModelNames) <= MaxSwitches
    /\ IndexOf(model, ModelNames) < Len(ModelNames)
    /\ m = ModelNames[IndexOf(model, ModelNames) + 1]
    /\ model' = m
    /\ handlers' = handlers + 1
    /\ last' = Step("config", 0, 0, "none", "none", << >>)
    /\ UNCHANGED <<config, completionDelay, now, cache, isGenerating, debounceTimer, timers,
                   calls, count, pending, superseded, order, input, output>>

\* handleConfigurationChange, lines 197-203: the connection test has
\* returned and the handler clears the provider's cache.
handleConfigurationChangeResume ==
    /\ handlers > 0
    /\ handlers' = handlers - 1
    /\ cache' = clearCache
    /\ order' = << >>
    /\ last' = Step("clear", 0, 0, "none", "none", << >>)
    /\ UNCHANGED <<config, completionDelay, model, now, isGenerating, debounceTimer, timers,
                   calls, count, pending, superseded, input, output>>

\* Requests for two documents, fires, replies of the model the request was
\* posted to, and changes of the model at any moment.
SwitchInit ==
    /\ Constructed(DefaultConfig)
    /\ input = << >>
    /\ output = << >>

SwitchNext ==
    \/ \E d \in {1, 3} : provideInlineCompletionItems(d)
    \/ \E r \in timers : TimerFire(r)
    \/ \E r \in calls :
         BackendRespond(r, [kind |-> "ok", response |-> ModelReply(r.request.model)])
    \/ \E m \in Range(ModelNames) : handleConfigurationChange(m)
    \/ handleConfigurationChangeResume

SwitchSpec == SwitchInit /\ [][SwitchNext]_vars

\* C23: once handleConfigurationChange has finished handling a change of
\* the model, the cache holds no completion of a backend call issued before
\* the change, a generation in flight during the change included, and no
\* cache hit served after the service was switched returns one.
C23_NoStaleCompletionAfterSwitch ==
    /\ [](handlers = 0 => \A i \in DOMAIN cache : cache[i].completion = ModelReply(model))
    /\ [][\A r \in timers :
            (FireOf(r) /\ last'.exit = "hit") => last'.items = <<ModelReply(model)>>]_vars

====
